---- MODULE Spec2Model ----
(***************************************************************************)
(* Model of docs/background/plot_bgcube_true_reco.py: the power-law        *)
(* helpers and the straight-line run of plot_bg_cube_model_comparison.     *)
(*                                                                         *)
(* Floating-point numbers are modelled by exact rationals <<n, d>> in      *)
(* lowest terms with d >= 0.  d = 0 stands for the non-finite results of   *)
(* numpy arithmetic: <<1, 0>> is inf, <<-1, 0>> is -inf, <<0, 0>> is nan.  *)
(* Energies are perfect squares and spectral indices are multiples of 1/2, *)
(* so every power the script takes is again an exact rational.             *)
(***************************************************************************)
EXTENDS Integers, Sequences, FiniteSets, TLC

\* ------------------------------------------------------------------------
\* Bounds of the model
\* ------------------------------------------------------------------------
\* number of energy bins of a cube (sample points of a plotted spectrum)
NE == 2
\* largest rate value stored in the file of cube 1 ("true")
MaxRate1 == 1
\* largest rate value stored in the file of cube 2 ("reco")
MaxRate2 == 3
\* largest square root of an energy passed to the helpers on their own
MaxRoot == 3
\* largest numerator of a normalization passed to the helpers on their own
MaxNorm == 2

\* ------------------------------------------------------------------------
\* Exact rational arithmetic standing for Python / numpy floats
\* ------------------------------------------------------------------------
Abs(n) == IF n < 0 THEN -n ELSE n

Sgn(n) == IF n > 0 THEN 1 ELSE IF n < 0 THEN -1 ELSE 0

RECURSIVE GCD(_, _)
GCD(a, b) == IF b = 0 THEN a ELSE GCD(b, a % b)

\* lowest terms, positive denominator; a zero denominator keeps only the sign
Reduce(r) ==
    IF r[2] = 0 THEN <<Sgn(r[1]), 0>>
    ELSE LET g == GCD(Abs(r[1]), Abs(r[2]))
             s == Sgn(r[2])
         IN  <<(s * r[1]) \div g, (s * r[2]) \div g>>

Rat(n) == <<n, 1>>

Zero == <<0, 1>>

One == <<1, 1>>

IsFinite(r) == r[2] # 0

RAdd(a, b) ==
    IF a[2] = 0 /\ b[2] = 0
    THEN (IF a[1] = b[1] THEN a ELSE <<0, 0>>)
    ELSE Reduce(<<a[1] * b[2] + b[1] * a[2], a[2] * b[2]>>)

RNeg(a) == <<-a[1], a[2]>>

RSub(a, b) == RAdd(a, RNeg(b))

RMul(a, b) == Reduce(<<a[1] * b[1], a[2] * b[2]>>)

\* numpy division: x/0 is +-inf, 0/0 is nan (a warning, not an exception)
RDiv(a, b) ==
    IF b[1] = 0 THEN <<Sgn(a[1]) * b[2], 0>>
    ELSE Reduce(<<a[1] * b[2] * Sgn(b[1]), a[2] * Abs(b[1])>>)

RLess(a, b) == a[1] * b[2] < b[1] * a[2]

RAbs(a) == <<Abs(a[1]), a[2]>>

RECURSIVE IPow(_, _)
IPow(b, k) == IF k = 0 THEN 1 ELSE b * IPow(b, k - 1)

\* integer square root of a perfect square
ISqrt(n) == CHOOSE r \in 0..n : r * r = n

\* x ** e for a positive rational x and an exponent e that is a multiple of
\* 1/2; with a half-integer exponent x must be a ratio of perfect squares
RPow(x, e) ==
    LET root == IF e[2] = 2 THEN <<ISqrt(x[1]), ISqrt(x[2])>> ELSE x
        k    == Abs(e[1])
        p    == <<IPow(root[1], k), IPow(root[2], k)>>
    IN  IF e[1] >= 0 THEN Reduce(p) ELSE Reduce(<<p[2], p[1]>>)

\* ------------------------------------------------------------------------
\* Module constants of the script
\* ------------------------------------------------------------------------
\* E_REF = Quantity(1., 'TeV')
E_REF == One

\* NORM = 1
NORM == One

\* INDEX = 1.5
INDEX == <<3, 2>>

\* ------------------------------------------------------------------------
\* Power-law helpers
\* ------------------------------------------------------------------------
\* def power_law(energy, E_0, norm, index):
\*     return norm*(energy/E_0)**-index
power_law_noref(energy, E_0, norm, index) ==
    RMul(norm, RPow(energy, RNeg(index)))

power_law(energy, E_0, norm, index) ==
    RMul(norm, RPow(RDiv(energy, E_0), RNeg(index)))

\* def int_power_law(energy_band, E_0, norm, index):
\*     return norm/(1 - index)/E_0**-index
\*            *(energy_band[1]**(1 - index) - energy_band[0]**(1 - index))
\* norm and index are Python numbers: norm/(1 - index) is evaluated first and
\* raises ZeroDivisionError when index == 1.
int_power_law_swapped(energy_band, E_0, norm, index) ==
    LET oneMinus == RSub(One, index)
    IN  IF oneMinus = Zero
        THEN [raised |-> "ZeroDivisionError", value |-> Zero]
        ELSE [raised |-> "",
              value  |-> RMul(RDiv(RDiv(norm, oneMinus), RPow(E_0, RNeg(index))),
                              RSub(RPow(energy_band[1], oneMinus),
                                   RPow(energy_band[2], oneMinus)))]

int_power_law_guarded(energy_band, E_0, norm, index) ==
    LET oneMinus == RSub(One, index)
    IN  IF oneMinus = Zero
        THEN [raised |-> "", value |-> Zero]
        ELSE [raised |-> "",
              value  |-> RMul(RDiv(RDiv(norm, oneMinus), RPow(E_0, RNeg(index))),
                              RSub(RPow(energy_band[2], oneMinus),
                                   RPow(energy_band[1], oneMinus)))]

int_power_law(energy_band, E_0, norm, index) ==
    LET oneMinus == RSub(One, index)
    IN  IF oneMinus = Zero
        THEN [raised |-> "ZeroDivisionError", value |-> Zero]
        ELSE [raised |-> "",
              value  |-> RMul(RDiv(RDiv(norm, oneMinus), RPow(E_0, RNeg(index))),
                              RSub(RPow(energy_band[2], oneMinus),
                                   RPow(energy_band[1], oneMinus)))]

\* ------------------------------------------------------------------------
\* Background cubes (gammapy.background.CubeBackgroundModel.background_cube)
\* ------------------------------------------------------------------------
\* the two detector bins the script plots: coord [0, 0] deg (row 0 of the
\* figure) and coord [2, 2] deg (row 1)
Rows == {0, 1}

EnergyBins == 1..NE

\* energy of the k-th sample point, in TeV (1, 4, 9, ...)
EnergyOf(k) == Rat(k * k)

\* volume of a (energy bin, detector bin) cell: energy bin width times a unit
\* detector solid angle
BinVolume(k) == Rat(k + 1)

\* value units a file can use, as scale factors relative to a base unit: the
\* file of cube 1 uses the base unit, the file of cube 2 that or a larger one
UnitScales1 == {1}

UnitScales2 == {1, 1000}

\* the cubes a file can hold: in each detector bin the rate starts at a level
\* of its own at the lowest energy and falls by a common slope per energy bin,
\* never below zero (slope 0 is a flat spectrum)
FileCubes(max, units) == [level : [Rows -> 0..max], slope : {0, 1}, unit : units]

\* the rate a file holds for detector bin r and energy bin k
FileRate(file, r, k) ==
    IF file.level[r] > file.slope * (k - 1)
    THEN file.level[r] - file.slope * (k - 1)
    ELSE 0

\* CubeBackgroundModel.read(filename, format='table').background_cube
ReadCube(file) ==
    [data |-> [r \in Rows |-> [k \in EnergyBins |-> Rat(FileRate(file, r, k))]],
     unit |-> Rat(file.unit)]

RECURSIVE SumTo(_, _)
SumTo(f, n) == IF n = 0 THEN Zero ELSE RAdd(SumTo(f, n - 1), f[n])

\* cube.integral: total of all rate values weighted by bin volume, a Quantity
\* in the unit of the data (times the unit of the bin volume)
Integral(cube) ==
    LET perRow(r) == SumTo([k \in EnergyBins |->
                               RMul(cube.data[r][k], BinVolume(k))], NE)
    IN  [value |-> RAdd(perRow(0), perRow(1)), unit |-> cube.unit]

\* Quantity / Quantity
QDiv(a, b) == [value |-> RDiv(a.value, b.value), unit |-> RDiv(a.unit, b.unit)]

\* the value of a Quantity in the base unit
Physical(value, unit) == RMul(value, unit)

ScaleCube_row0(cube, q) ==
    [data |-> [r \in Rows |-> [k \in EnergyBins |->
                  IF r = 0 THEN RMul(cube.data[r][k], q.value) ELSE cube.data[r][k]]],
     unit |-> RMul(cube.unit, q.unit)]

\* array *= Quantity: every element is multiplied, the units multiply
ScaleCube(cube, q) ==
    [data |-> [r \in Rows |-> [k \in EnergyBins |-> RMul(cube.data[r][k], q.value)]],
     unit |-> RMul(cube.unit, q.unit)]

\* array.to(unit): the same physical values expressed in another unit
ToUnit(cube, unit) ==
    [data |-> [r \in Rows |-> [k \in EnergyBins |->
                  RMul(cube.data[r][k], RDiv(cube.unit, unit))]],
     unit |-> unit]

\* ------------------------------------------------------------------------
\* Figure: a 2 x 3 grid of axes
\* ------------------------------------------------------------------------
Axes == {<<r, c>> : r \in Rows, c \in {0, 1, 2}}

\* auto-generated titles plot_spectrum can set on a spectral panel: the
\* detector binning of cube 1 is taken as the reference, cube 2 has the same
\* binning or another one
SpecTitles1 == {"det bin: 3x3"}

SpecTitles2 == {"det bin: 3x3", "det bin: 5x5"}

\* auto-generated title of cube.plot_image(energy=...)
ImageTitle(energy) == IF energy = 1 THEN "E = 1 TeV" ELSE "E = 10 TeV"

\* the four plot_image calls, in source order
ImageCalls ==
    << [cube |-> 1, energy |-> 1,  ax |-> <<0, 0>>],
       [cube |-> 1, energy |-> 10, ax |-> <<1, 0>>],
       [cube |-> 2, energy |-> 1,  ax |-> <<0, 1>>],
       [cube |-> 2, energy |-> 10, ax |-> <<1, 1>>] >>

\* the line cube.plot_spectrum(coord=...) adds: the rates of the detector bin
\* holding coord against the energy sample points
Spectrum(cube, r, color, label) ==
    [x |-> [k \in EnergyBins |-> EnergyOf(k)],
     y |-> cube.data[r],
     color |-> color, linestyle |-> "solid", label |-> label]

\* np.trapz(y=y, x=x)
RECURSIVE TrapzTo(_, _, _)
TrapzTo(y, x, n) ==
    IF n <= 1 THEN Zero
    ELSE RAdd(TrapzTo(y, x, n - 1),
              RMul(RSub(x[n], x[n - 1]), RDiv(RAdd(y[n], y[n - 1]), Rat(2))))

trapz(y, x) == TrapzTo(y, x, Len(x))

\* 'model index = {}'.format(index)
IndexLabel(index) ==
    IF index = <<3, 2>> THEN "model index = 1.5"
    ELSE IF index = <<5, 2>> THEN "model index = 2.5"
    ELSE "model index = ?"

name1 == "true"

name2 == "reco"

NoCube == [data |-> [r \in Rows |-> [k \in EnergyBins |-> Zero]], unit |-> One]

NoQuantity == [value |-> Zero, unit |-> One]

NoCall == [f |-> "", energy |-> One, energy_band |-> <<One, One>>, E_0 |-> One,
           norm |-> One, index |-> Zero, raised |-> "", value |-> Zero]

VARIABLES
    file1, file2,              \* the cubes stored in input_file1, input_file2
    bg_cube_model1, bg_cube_model2,
    integral1, integral2,
    axes_title,                \* title of each of the six axes
    lines,                     \* lines of each spectral panel axes[r, 2]
    legend,                    \* whether axes[r, 2].legend() was called
    spec_title1, spec_title2,
    index, plot_data_x, plot_data_y, plot_data_int, energy_band, model_int,
    row,                       \* row of the spectral panel being built
    img,                       \* number of plot_image calls made
    raised,                    \* the exception that ended the run, if any
    shown,                     \* number of plt.show() calls
    pc,                        \* position in plot_bg_cube_model_comparison
    call                       \* a direct call of one of the helpers

vars == <<file1, file2, bg_cube_model1, bg_cube_model2, integral1, integral2,
          axes_title, lines, legend, spec_title1, spec_title2,
          index, plot_data_x, plot_data_y, plot_data_int, energy_band, model_int,
          row, img, raised, shown, pc, call>>

cubeVars == <<bg_cube_model1, bg_cube_model2>>

integralVars == <<integral1, integral2>>

figureVars == <<axes_title, lines, legend>>

titleVars == <<spec_title1, spec_title2>>

overlayVars == <<index, plot_data_x, plot_data_y, plot_data_int, energy_band, model_int>>

inputVars == <<file1, file2, call>>

NoRun ==
    /\ bg_cube_model1 = NoCube
    /\ bg_cube_model2 = NoCube
    /\ integral1 = NoQuantity
    /\ integral2 = NoQuantity
    /\ axes_title = [a \in Axes |-> ""]
    /\ lines = [r \in Rows |-> <<>>]
    /\ legend = [r \in Rows |-> FALSE]
    /\ spec_title1 = ""
    /\ spec_title2 = ""
    /\ index = Zero
    /\ plot_data_x = <<>>
    /\ plot_data_y = <<>>
    /\ plot_data_int = Zero
    /\ energy_band = <<Zero, Zero>>
    /\ model_int = Zero
    /\ row = 0
    /\ img = 0
    /\ raised = ""
    /\ shown = 0

\* plot_bg_cube_model_comparison(input_file1, name1, input_file2, name2)
Init ==
    /\ file1 \in FileCubes(MaxRate1, UnitScales1)
    /\ file2 \in FileCubes(MaxRate2, UnitScales2)
    /\ NoRun
    /\ pc = "read"
    /\ call = NoCall

\* lines 56-63: read both cubes
Read ==
    /\ pc = "read"
    /\ bg_cube_model1' = ReadCube(file1)
    /\ bg_cube_model2' = ReadCube(file2)
    /\ pc' = "integrals"
    /\ UNCHANGED <<inputVars, integralVars, figureVars, titleVars, overlayVars,
                   row, img, raised, shown>>

\* lines 67-68
ReadIntegrals ==
    /\ pc = "integrals"
    /\ integral1' = Integral(bg_cube_model1)
    /\ integral2' = Integral(bg_cube_model2)
    /\ pc' = "rescale"
    /\ UNCHANGED <<inputVars, cubeVars, figureVars, titleVars, overlayVars,
                   row, img, raised, shown>>

\* line 69: bg_cube_model1.data *= integral2/integral1
Rescale_inverted ==
    /\ pc = "rescale"
    /\ bg_cube_model1' = ScaleCube(bg_cube_model1, QDiv(integral1, integral2))
    /\ pc' = "convert"
    /\ UNCHANGED <<inputVars, bg_cube_model2, integralVars, figureVars, titleVars,
                   overlayVars, row, img, raised, shown>>

Rescale ==
    /\ pc = "rescale"
    /\ bg_cube_model1' = ScaleCube(bg_cube_model1, QDiv(integral2, integral1))
    /\ pc' = "convert"
    /\ UNCHANGED <<inputVars, bg_cube_model2, integralVars, figureVars, titleVars,
                   overlayVars, row, img, raised, shown>>

\* line 72: bg_cube_model2.data = bg_cube_model2.data.to(bg_cube_model1.data.unit)
ConvertUnits ==
    /\ pc = "convert"
    /\ bg_cube_model2' = ToUnit(bg_cube_model2, bg_cube_model1.unit)
    /\ pc' = "image"
    /\ UNCHANGED <<inputVars, bg_cube_model1, integralVars, figureVars, titleVars,
                   overlayVars, row, img, raised, shown>>

\* lines 83-90: cube.plot_image(energy, ax) then the title gets the name prefix
PlotImage ==
    /\ pc = "image"
    /\ LET c == ImageCalls[img + 1]
           name == IF c.cube = 1 THEN name1 ELSE name2
       IN  axes_title' = [axes_title EXCEPT
                             ![c.ax] = name \o ": " \o ImageTitle(c.energy)]
    /\ img' = img + 1
    /\ pc' = IF img + 1 = Len(ImageCalls) THEN "spectrum1" ELSE "image"
    /\ UNCHANGED <<inputVars, cubeVars, integralVars, lines, legend, titleVars,
                   overlayVars, row, raised, shown>>

PlotSpectrum1_reco ==
    /\ pc = "spectrum1"
    /\ \E t \in SpecTitles1 :
          /\ axes_title' = [axes_title EXCEPT ![<<row, 2>>] = t]
          /\ spec_title1' = t
    /\ lines' = [lines EXCEPT ![row] =
                    Append(@, Spectrum(bg_cube_model2, row, "blue", name1))]
    /\ pc' = "spectrum2"
    /\ UNCHANGED <<inputVars, cubeVars, integralVars, legend, spec_title2,
                   overlayVars, row, img, raised, shown>>

\* lines 95-99 and 142-146: plot cube 1's spectrum, read the title it set
PlotSpectrum1 ==
    /\ pc = "spectrum1"
    /\ \E t \in SpecTitles1 :
          /\ axes_title' = [axes_title EXCEPT ![<<row, 2>>] = t]
          /\ spec_title1' = t
    /\ lines' = [lines EXCEPT ![row] =
                    Append(@, Spectrum(bg_cube_model1, row, "blue", name1))]
    /\ pc' = "spectrum2"
    /\ UNCHANGED <<inputVars, cubeVars, integralVars, legend, spec_title2,
                   overlayVars, row, img, raised, shown>>

\* lines 100-104 and 147-151: plot cube 2's spectrum, read the title it set
PlotSpectrum2 ==
    /\ pc = "spectrum2"
    /\ \E t \in SpecTitles2 :
          /\ axes_title' = [axes_title EXCEPT ![<<row, 2>>] = t]
          /\ spec_title2' = t
    /\ lines' = [lines EXCEPT ![row] =
                    Append(@, Spectrum(bg_cube_model2, row, "red", name2))]
    /\ pc' = "check"
    /\ UNCHANGED <<inputVars, cubeVars, integralVars, legend, spec_title1,
                   overlayVars, row, img, raised, shown>>

\* "Expected same det binning, but got " + "\"{0}\" and \"{1}\"".format(t1, t2)
TitleError(t1, t2) ==
    "Expected same det binning, but got " \o "\"" \o t1 \o "\" and \"" \o t2 \o "\""

\* lines 105-110 and 152-157: the one explicit check of the script
CheckTitle_lenient ==
    /\ pc = "check"
    /\ axes_title' = [axes_title EXCEPT ![<<row, 2>>] = spec_title1]
    /\ raised' = raised
    /\ pc' = "overlay1"
    /\ UNCHANGED <<inputVars, cubeVars, integralVars, lines, legend, titleVars,
                   overlayVars, row, img, shown>>

CheckTitle ==
    /\ pc = "check"
    /\ IF spec_title1 # spec_title2
       THEN /\ raised' = "ValueError: " \o TitleError(spec_title1, spec_title2)
            /\ pc' = "raised"
            /\ UNCHANGED axes_title
       ELSE /\ axes_title' = [axes_title EXCEPT ![<<row, 2>>] = spec_title1]
            /\ pc' = "overlay1"
            /\ UNCHANGED raised
    /\ UNCHANGED <<inputVars, cubeVars, integralVars, lines, legend, titleVars,
                   overlayVars, row, img, shown>>

\* axes[r, 2].get_lines()[0]: the line the overlays are normalized to
BasisLine_last(ls) == ls[Len(ls)]

BasisLine(ls) == ls[1]

\* plot_data_int/model_int*power_law(plot_data_x, E_0, norm, index)
NormedPL_unscaled(data_int, mod_int, data_x, E_0, norm, idx) ==
    [k \in DOMAIN data_x |-> power_law(data_x[k], E_0, norm, idx)]

NormedPL(data_int, mod_int, data_x, E_0, norm, idx) ==
    [k \in DOMAIN data_x |->
        RMul(RDiv(data_int, mod_int), power_law(data_x[k], E_0, norm, idx))]

\* lines 114-138 and 161-185: one normalized power law drawn on top
Overlay(idx, style, next) ==
    LET basis == BasisLine(lines[row])
        x     == basis.x
        y     == basis.y
        T     == trapz(y, x)
        band  == <<x[1], x[Len(x)]>>
        m     == int_power_law(band, E_REF, NORM, idx)
    IN  /\ index' = idx
        /\ plot_data_x' = x
        /\ plot_data_y' = y
        /\ plot_data_int' = T
        /\ energy_band' = band
        /\ IF m.raised # ""
           THEN /\ raised' = m.raised
                /\ pc' = "raised"
                /\ UNCHANGED <<model_int, lines>>
           ELSE /\ model_int' = m.value
                /\ lines' = [lines EXCEPT ![row] = Append(@,
                      [x |-> x,
                       y |-> NormedPL(T, m.value, x, E_REF, NORM, idx),
                       color |-> "blue", linestyle |-> style,
                       label |-> IndexLabel(idx)])]
                /\ pc' = next
                /\ UNCHANGED raised
        /\ UNCHANGED <<inputVars, cubeVars, integralVars, axes_title, legend,
                       titleVars, row, img, shown>>

\* lines 114-126 and 161-173: index = INDEX, dotted
Overlay1 ==
    /\ pc = "overlay1"
    /\ Overlay(INDEX, "dotted", "overlay2")

\* lines 128-138 and 175-185: index = INDEX + 1, dashed
Overlay2 ==
    /\ pc = "overlay2"
    /\ Overlay(RAdd(INDEX, One), "dashed", "legend")

Legend_once ==
    /\ pc = "legend"
    /\ legend' = [legend EXCEPT ![row] = TRUE]
    /\ row' = row
    /\ pc' = "show"
    /\ UNCHANGED <<inputVars, cubeVars, integralVars, axes_title, lines,
                   titleVars, overlayVars, img, raised, shown>>

\* lines 140 and 187: axes[r, 2].legend(); row 0 is followed by row 1
Legend ==
    /\ pc = "legend"
    /\ legend' = [legend EXCEPT ![row] = TRUE]
    /\ IF row = 0
       THEN row' = 1 /\ pc' = "spectrum1"
       ELSE row' = row /\ pc' = "show"
    /\ UNCHANGED <<inputVars, cubeVars, integralVars, axes_title, lines,
                   titleVars, overlayVars, img, raised, shown>>

\* line 189: plt.show()
Show ==
    /\ pc = "show"
    /\ shown' = shown + 1
    /\ pc' = "done"
    /\ UNCHANGED <<inputVars, cubeVars, integralVars, figureVars, titleVars,
                   overlayVars, row, img, raised>>

Next ==
    \/ Read
    \/ ReadIntegrals
    \/ Rescale
    \/ ConvertUnits
    \/ PlotImage
    \/ PlotSpectrum1
    \/ PlotSpectrum2
    \/ CheckTitle
    \/ Overlay1
    \/ Overlay2
    \/ Legend
    \/ Show

Spec == Init /\ [][Next]_vars

\* ------------------------------------------------------------------------
\* The helpers called on their own
\* ------------------------------------------------------------------------
\* positive energies whose square root is an integer
FnEnergies == {Rat(r * r) : r \in 1..MaxRoot}

FnNorms == {Reduce(<<n, d>>) : n \in (-MaxNorm)..MaxNorm, d \in 1..2}

\* spectral indices -1, -1/2, 0, 1/2, 1, 3/2, 2, 5/2
FnIndices == {Reduce(<<i, 2>>) : i \in (-2)..5}

InitFn ==
    /\ file1 = [level |-> [r \in Rows |-> 0], slope |-> 0, unit |-> 1]
    /\ file2 = [level |-> [r \in Rows |-> 0], slope |-> 0, unit |-> 1]
    /\ NoRun
    /\ pc = "helpers"
    /\ call = NoCall

CallPowerLaw ==
    /\ pc = "helpers"
    /\ \E energy \in FnEnergies, E_0 \in FnEnergies, norm \in FnNorms,
          idx \in FnIndices :
          call' = [f |-> "power_law", energy |-> energy,
                   energy_band |-> <<One, One>>, E_0 |-> E_0, norm |-> norm,
                   index |-> idx, raised |-> "",
                   value |-> power_law(energy, E_0, norm, idx)]
    /\ pc' = "returned"
    /\ UNCHANGED <<file1, file2, cubeVars, integralVars, figureVars, titleVars,
                   overlayVars, row, img, raised, shown>>

CallIntPowerLaw ==
    /\ pc = "helpers"
    /\ \E a \in FnEnergies, b \in FnEnergies, E_0 \in FnEnergies,
          norm \in FnNorms, idx \in FnIndices :
          LET res == int_power_law(<<a, b>>, E_0, norm, idx)
          IN  call' = [f |-> "int_power_law", energy |-> One,
                       energy_band |-> <<a, b>>, E_0 |-> E_0, norm |-> norm,
                       index |-> idx, raised |-> res.raised,
                       value |-> res.value]
    /\ pc' = "returned"
    /\ UNCHANGED <<file1, file2, cubeVars, integralVars, figureVars, titleVars,
                   overlayVars, row, img, raised, shown>>

NextFn ==
    \/ CallPowerLaw
    \/ CallIntPowerLaw

SpecFn == InitFn /\ [][NextFn]_vars

\* ------------------------------------------------------------------------
\* Properties
\* ------------------------------------------------------------------------
\* positions of the run after the unit conversion of line 72
AfterNormalization ==
    pc \in {"image", "spectrum1", "spectrum2", "check", "overlay1", "overlay2",
            "legend", "show", "done", "raised"}

\* positions of the run after the multiplication of line 69
AfterRescale == pc = "convert" \/ AfterNormalization

\* positions of the run at which both overlays' locals hold a finished read
AfterOverlay == pc \in {"overlay2", "legend", "show", "done"}

FileIntegral1 == Integral(ReadCube(file1))

FileIntegral2 == Integral(ReadCube(file2))

QPhysical(q) == Physical(q.value, q.unit)

\* C1: once cube 1 is rescaled and cube 2 converted, and provided the loaded
\* integral of cube 1 was not zero, the integral of cube 1 equals the integral
\* read from cube 2, the two cubes' integrals are equal and their value units
\* are the same, at every later position of the run.
C1_NormalizedIntegralsMatch ==
    (AfterNormalization /\ FileIntegral1.value # Zero) =>
        /\ QPhysical(Integral(bg_cube_model1)) = QPhysical(FileIntegral2)
        /\ QPhysical(Integral(bg_cube_model1)) = QPhysical(integral2)
        /\ Integral(bg_cube_model1) = Integral(bg_cube_model2)
        /\ bg_cube_model1.unit = bg_cube_model2.unit

C1_Witness ==
    /\ pc = "done"
    /\ file1.unit # file2.unit
    /\ FileIntegral1.value # Zero
    /\ FileIntegral2.value # Zero
    /\ FileIntegral1.value # FileIntegral2.value
    /\ Integral(bg_cube_model1) = Integral(bg_cube_model2)

\* C2: the rescale multiplies every element of cube 1 by the one factor
\* integral2/integral1 taken from the cubes as loaded, and the values of
\* cube 2 stay physically what the file held; an all-ones cube of integral 10
\* rescaled to a cube of integral 25 with the same unit holds 2.5 everywhere.
C2_RescaleUniformFactor ==
    AfterRescale =>
        /\ \A r \in Rows, k \in EnergyBins :
              /\ bg_cube_model1.data[r][k] =
                    RMul(Rat(FileRate(file1, r, k)),
                         RDiv(FileIntegral2.value, FileIntegral1.value))
              /\ Physical(bg_cube_model2.data[r][k], bg_cube_model2.unit) =
                    Physical(Rat(FileRate(file2, r, k)), Rat(file2.unit))
        /\ bg_cube_model1.unit =
              RMul(Rat(file1.unit), RDiv(Rat(file2.unit), Rat(file1.unit)))
        /\ ( /\ \A r \in Rows, k \in EnergyBins : FileRate(file1, r, k) = 1
             /\ file1.unit = file2.unit
             /\ FileIntegral1.value = Rat(10)
             /\ FileIntegral2.value = Rat(25) )
           => \A r \in Rows, k \in EnergyBins : bg_cube_model1.data[r][k] = <<5, 2>>

C2_Witness ==
    /\ pc = "convert"
    /\ \A r \in Rows, k \in EnergyBins : FileRate(file1, r, k) = 1
    /\ file1.unit = file2.unit
    /\ integral1.value = Rat(10)
    /\ integral2.value = Rat(25)
    /\ \A r \in Rows, k \in EnergyBins : bg_cube_model1.data[r][k] = <<5, 2>>

\* C3: the title check of a spectral panel raises ValueError with a message
\* holding cube 1's title and then cube 2's title when the two titles read
\* back differ; when they are equal nothing is raised and the panel title is
\* set to the common title.
C3_TitleCheck ==
    [][pc = "check" =>
          IF spec_title1 # spec_title2
          THEN /\ pc' = "raised"
               /\ raised' = "ValueError: Expected same det binning, but got \""
                               \o spec_title1 \o "\" and \"" \o spec_title2 \o "\""
          ELSE /\ pc' = "overlay1"
               /\ raised' = ""
               /\ axes_title'[<<row, 2>>] = spec_title1
               /\ axes_title'[<<row, 2>>] = spec_title2]_vars

C3_Witness ==
    /\ pc = "raised"
    /\ row = 1
    /\ spec_title1 = "det bin: 3x3"
    /\ spec_title2 = "det bin: 5x5"
    /\ raised = "ValueError: Expected same det binning, but got "
                   \o "\"det bin: 3x3\" and \"det bin: 5x5\""

\* the dotted overlay of the panel being built, and the curve it is scaled to
DottedOverlay == lines[row][3]

FirstCurve == lines[row][1]

\* relative tolerance of the comparison of two integrals
RelTol == <<1, 100>>

\* C4 as stated: the trapezoidal integral of the dotted overlay over its
\* sample points equals, within tolerance, the trapezoidal integral T of the
\* curve it was scaled to.
C4_OverlayTrapzEqualsT ==
    (AfterOverlay /\ IsFinite(trapz(FirstCurve.y, FirstCurve.x))) =>
        LET T == trapz(FirstCurve.y, FirstCurve.x)
            O == trapz(DottedOverlay.y, DottedOverlay.x)
        IN  ~ RLess(RMul(RelTol, RAbs(T)), RAbs(RSub(O, T)))

\* C4 amended: the dotted overlay is the index-1.5 power law times
\* T / int_power_law, so its analytic integral over [x_first, x_last] is T;
\* its trapezoidal integral is T * trapz(power law) / int_power_law, which is
\* larger than T whenever T > 0.
C4_OverlayAnalyticIntegralIsT ==
    (AfterOverlay /\ IsFinite(trapz(FirstCurve.y, FirstCurve.x))) =>
        LET T    == trapz(FirstCurve.y, FirstCurve.x)
            x    == DottedOverlay.x
            band == <<x[1], x[Len(x)]>>
            A    == int_power_law(band, E_REF, NORM, INDEX).value
            PL   == [k \in DOMAIN x |-> power_law(x[k], E_REF, NORM, INDEX)]
            O    == trapz(DottedOverlay.y, x)
        IN  /\ x = FirstCurve.x
            /\ \A k \in DOMAIN x : RMul(DottedOverlay.y[k], A) = RMul(T, PL[k])
            /\ RMul(O, A) = RMul(T, trapz(PL, x))
            /\ RLess(A, trapz(PL, x))
            /\ RLess(Zero, T) => RLess(T, O)

C4_Witness ==
    /\ pc = "overlay2"
    /\ row = 1
    /\ plot_data_int = Rat(3)
    /\ trapz(DottedOverlay.y, DottedOverlay.x) = <<81, 16>>

\* C5: power_law(E0, E0, norm, index) is norm.
C5_PowerLawAtReference ==
    (call.f = "power_law" /\ call.energy = call.E_0) => call.value = call.norm

C5_Witness ==
    /\ call.f = "power_law"
    /\ call.energy = Rat(4)
    /\ call.E_0 = Rat(4)
    /\ call.index = <<3, 2>>
    /\ call.norm = <<1, 2>>
    /\ call.value = <<1, 2>>

\* C6: int_power_law with index 0 over [a, b] is norm * (b - a).
C6_FlatIntegral ==
    (call.f = "int_power_law" /\ call.index = Zero) =>
        /\ call.raised = ""
        /\ call.value = RMul(call.norm,
                             RSub(call.energy_band[2], call.energy_band[1]))

C6_Witness ==
    /\ call.f = "int_power_law"
    /\ call.index = Zero
    /\ call.energy_band = <<Rat(1), Rat(4)>>
    /\ call.E_0 = Rat(9)
    /\ call.norm = Rat(2)
    /\ call.value = Rat(6)

\* C7: int_power_law raises a division by zero exactly when index is 1, for
\* every band, E0 and norm; with any other index it returns a value.
C7_IndexOneDividesByZero ==
    call.f = "int_power_law" =>
        /\ call.index = One => call.raised = "ZeroDivisionError"
        /\ call.index # One => (call.raised = "" /\ IsFinite(call.value))

C7_Witness ==
    /\ call.f = "int_power_law"
    /\ call.index = One
    /\ call.energy_band = <<Rat(1), Rat(9)>>
    /\ call.E_0 = Rat(4)
    /\ call.raised = "ZeroDivisionError"

\* the line that was the most recently plotted one when the last overlay read
\* its basis: the overlay itself is the last line now
MostRecentBeforeOverlay == lines[row][Len(lines[row]) - 1]

\* C8 as stated: each overlay normalization reads the sample points of the
\* line most recently added to the panel at the moment of the read.
C8_ReadsMostRecentLine ==
    AfterOverlay =>
        /\ plot_data_x = MostRecentBeforeOverlay.x
        /\ plot_data_y = MostRecentBeforeOverlay.y

\* C8 amended: each overlay normalization reads the sample points of the
\* first line of the panel, get_lines()[0], and scales the power law by that
\* line's trapezoidal integral over the analytic integral on its x-range.
C8_ReadsFirstLine ==
    AfterOverlay =>
        /\ plot_data_x = FirstCurve.x
        /\ plot_data_y = FirstCurve.y
        /\ plot_data_int = trapz(FirstCurve.y, FirstCurve.x)
        /\ energy_band = <<FirstCurve.x[1], FirstCurve.x[Len(FirstCurve.x)]>>
        /\ LET last == lines[row][Len(lines[row])]
           IN  \A k \in DOMAIN last.x :
                  last.y[k] = RMul(RDiv(plot_data_int, model_int),
                                   power_law(last.x[k], E_REF, NORM, index))

C8_Witness ==
    /\ pc = "legend"
    /\ Len(lines[row]) = 4
    /\ lines[row][1].y # lines[row][2].y
    /\ lines[row][1].y # lines[row][3].y
    /\ plot_data_y = lines[row][1].y
    /\ IsFinite(plot_data_int)
    /\ plot_data_int # Zero

\* C9: in each spectral panel the line at index 0 is cube 1's spectrum from
\* the moment it is plotted on, whatever is added to the panel later, and
\* both overlays are scaled to it: the second overlay reads the same sample
\* points, integral and x-range as the first.
C9_BothOverlaysUseTrueSpectrum ==
    /\ [](\A r \in Rows : lines[r] # <<>> =>
             /\ lines[r][1].y = bg_cube_model1.data[r]
             /\ lines[r][1].label = name1)
    /\ [](AfterOverlay => plot_data_y = bg_cube_model1.data[row])
    /\ [][\A r \in Rows : lines[r] # <<>> => lines'[r][1] = lines[r][1]]_vars
    /\ [][pc = "overlay2" =>
             /\ plot_data_x' = plot_data_x
             /\ plot_data_y' = plot_data_y
             /\ plot_data_int' = plot_data_int
             /\ energy_band' = energy_band]_vars

C9_Witness ==
    /\ pc = "show"
    /\ \A r \in Rows :
          /\ Len(lines[r]) = 4
          /\ lines[r][2].label = name2
          /\ lines[r][2].y # lines[r][1].y
          /\ lines[r][1].y = bg_cube_model1.data[r]
    /\ plot_data_y = bg_cube_model1.data[1]
    /\ plot_data_y # bg_cube_model2.data[1]

\* C10: a failed title check ends the run at once: no overlay or legend is on
\* the failed panel, nothing is on the second panel when the first one failed,
\* and the figure is shown once, as the last step, after both checks passed
\* and both panels got their two overlays and their legend.
C10_RaiseEndsRunShowIsLast ==
    /\ [](pc = "raised" =>
             /\ raised # ""
             /\ shown = 0
             /\ Len(lines[row]) = 2
             /\ ~ legend[row]
             /\ row = 0 => (lines[1] = <<>> /\ ~ legend[1] /\ axes_title[<<1, 2>>] = ""))
    /\ [](shown \in {0, 1})
    /\ [](shown = 1 <=> pc = "done")
    /\ [](pc \in {"show", "done"} =>
             /\ raised = ""
             /\ \A r \in Rows :
                   /\ Len(lines[r]) = 4
                   /\ lines[r][3].linestyle = "dotted"
                   /\ lines[r][4].linestyle = "dashed"
                   /\ legend[r]
                   /\ axes_title[<<r, 2>>] \in SpecTitles1)
    /\ [][pc # "raised" /\ pc # "done"]_vars

C10_Witness ==
    /\ pc = "raised"
    /\ row = 1
    /\ Len(lines[0]) = 4
    /\ legend[0]
    /\ Len(lines[1]) = 2
    /\ shown = 0

====
